---- MODULE Spec2Model ----
(***************************************************************************)
(* go-ui: the four terminal widgets (list, pick, input, textarea), the     *)
(* run loop that feeds them messages, and the resolver ui.ErrorOrValidate  *)
(* that turns the loop's error and the widget's flags into the outcome.    *)
(*                                                                         *)
(* A text is a sequence of one-character strings.  A widget model is a     *)
(* record with the fields of the Go struct that matter for behaviour       *)
(* (styles, help and key maps are presentation only).                      *)
(***************************************************************************)
EXTENDS Integers, Sequences, FiniteSets, TLC

\* ------------------------------------------------------------------ bounds
\* Largest number of items of a List or Picker.
MaxItems == 3
\* Largest number of builder calls (WithCancel, WithQuit, WithSelectedIndex)
\* applied before the program is started.
MaxConf == 2
\* Largest number of messages the run loop hands to Update in one run.
MaxMsgs == 4
\* Largest number of messages handed to Update after Update returned tea.Quit
\* and before the loop handles the resulting quit message.
MaxLate == 2
\* Messages handed to a builder's receiver and result together.
MaxBuiltMsgs == 2

\* --------------------------------------------------------- program constants
\* textarea.New: ti.CharLimit = 100, ti.MaxHeight = 10; input.New: ti.CharLimit = 100
TextareaCharLimit == 100
TextareaMaxHeight == 10
InputCharLimit == 100

\* ------------------------------------------------------------------ values
NL == "\n"
QuitCmd == "tea.Quit"
NoCmd == "nil"
NilError == "nil"
CanceledError == "canceled"
QuitError == "quit"
\* A failure of the event loop itself (terminal I/O), as returned by Program.Run.
IOError == "io error"

Kinds == {"List", "Picker", "TextInput", "TextArea"}

Min(a, b) == IF a < b THEN a ELSE b
Max(a, b) == IF a > b THEN a ELSE b

\* ------------------------------------------------------------- ui (resolver)
\* Mutants of the resolver, used to show that the claims depend on it.
ErrorOrValidate_flagsFirst(err, m) ==
    IF m.canceled THEN CanceledError
    ELSE IF m.quit THEN QuitError
    ELSE IF err # NilError THEN err
    ELSE NilError

ErrorOrValidate_noQuit(err, m) ==
    IF err # NilError THEN err
    ELSE IF m.canceled THEN CanceledError
    ELSE NilError

\* ui.ErrorOrValidate: the cases of the switch, in the order of the source.
ErrorOrValidate(err, m) ==
    IF err # NilError THEN err
    ELSE IF m.canceled THEN CanceledError
    ELSE IF m.quit THEN QuitError
    ELSE NilError

\* --------------------------------------------------------------------- pick
\* pick.Showcase: the three items its pickers are built from.
ShowcaseItems == <<"Apple", "Banana", "Cherry">>
\* The items argument of pick.New, any []string: the showcase's items first,
\* then further strings when a longer list is asked for.
PickItems(n) ==
    [i \in 1..n |-> IF i <= Len(ShowcaseItems) THEN ShowcaseItems[i] ELSE "Item"]

\* pick.Pick: the items used when none are given
PickDefaultItems == <<"yes", "no">>

\* What a Go index expression s[i] yields: the element, or a run-time panic
\* when i is out of range.
Panic == "panic: index out of range"
GoIndex(s, i) == IF i >= 0 /\ i < Len(s) THEN s[i + 1] ELSE Panic

\* pick.New
PickNew(items) ==
    [items |-> items, label |-> "", cancelable |-> TRUE, quitable |-> TRUE,
     selectedIdx |-> 0, horizontal |-> FALSE, canceled |-> FALSE, quit |-> FALSE]

\* pick.Model.WithSelectedIndex
PickWithSelectedIndex(m, i) ==
    LET j == IF i < 0 THEN 0
             ELSE IF i > Len(m.items) - 1 THEN Len(m.items) - 1
             ELSE i
    IN  [m EXCEPT !.selectedIdx = j]

\* pick.Model.WithCancel, pick.Model.WithQuit
PickWithCancel(m, cancelable) == [m EXCEPT !.cancelable = cancelable]
PickWithQuit(m, quitable) == [m EXCEPT !.quitable = quitable]

\* pick.Model.WithLabel
PickWithLabel(m, label) == [m EXCEPT !.label = label]

\* A WithHorizontal that also puts the selection back on the first item.
PickWithHorizontal_resetsIndex(m, horizontal) ==
    [m EXCEPT !.horizontal = horizontal, !.selectedIdx = 0]

\* pick.Model.WithHorizontal
PickWithHorizontal(m, horizontal) == [m EXCEPT !.horizontal = horizontal]

\* pick.Model.SelectedItem
PickSelectedItem(m) ==
    IF m.selectedIdx >= 0 /\ m.selectedIdx < Len(m.items)
    THEN GoIndex(m.items, m.selectedIdx) ELSE ""

\* An up that stops at the first item instead of wrapping to the last.
PickUp_noWrap(m) ==
    LET i == m.selectedIdx - 1
    IN  [m EXCEPT !.selectedIdx = IF i < 0 THEN 0 ELSE i]

\* pick.Model.Update, case "up", "j", "left"
PickUp(m) ==
    LET i == m.selectedIdx - 1
    IN  [m EXCEPT !.selectedIdx = IF i < 0 THEN Len(m.items) - 1 ELSE i]

\* A wrap test that is off by one: the index may reach len(items).
PickDown_offByOne(m) ==
    LET i == m.selectedIdx + 1
    IN  [m EXCEPT !.selectedIdx = IF i > Len(m.items) THEN 0 ELSE i]

\* pick.Model.Update, case "down", "k", "right"
PickDown(m) ==
    LET i == m.selectedIdx + 1
    IN  [m EXCEPT !.selectedIdx = IF i >= Len(m.items) THEN 0 ELSE i]

\* An enter that also resets the selection to the first item.
PickEnter_selectsFirst(m) ==
    [m EXCEPT !.selectedIdx = 0, !.canceled = FALSE, !.quit = FALSE]

\* pick.Model.Update, case "enter"
PickEnter(m) == [m EXCEPT !.canceled = FALSE, !.quit = FALSE]

\* pick.Model.Update, case "esc" when cancelable
PickEsc(m) == [m EXCEPT !.selectedIdx = -1, !.canceled = TRUE, !.quit = FALSE]

\* pick.Model.Update, case "ctrl+c" when quitable
PickCtrlC(m) == [m EXCEPT !.selectedIdx = -1, !.canceled = FALSE, !.quit = TRUE]

\* A fall-through that puts the selection back on the first item.
PickOther_resetsIndex(m) == [m EXCEPT !.selectedIdx = 0]

\* pick.Model.Update, after the switch: the model as it is
PickOther(m) == m

\* pick.Model.Update: a disabled esc or ctrl+c, any other key and any other
\* message leave the switch and return (m, nil).
PickUpdate(m, msg) ==
    IF msg \in {"up", "j", "left"} THEN [m |-> PickUp(m), cmd |-> NoCmd]
    ELSE IF msg \in {"down", "k", "right"} THEN [m |-> PickDown(m), cmd |-> NoCmd]
    ELSE IF msg = "enter" THEN [m |-> PickEnter(m), cmd |-> QuitCmd]
    ELSE IF msg = "esc" /\ m.cancelable THEN [m |-> PickEsc(m), cmd |-> QuitCmd]
    ELSE IF msg = "ctrl+c" /\ m.quitable THEN [m |-> PickCtrlC(m), cmd |-> QuitCmd]
    ELSE [m |-> PickOther(m), cmd |-> NoCmd]

\* pick.Pick, after the run: -1 and the error when ErrorOrValidate returned
\* one, the stored index and nil otherwise.
PickReturn(err, m) ==
    IF err # NilError THEN <<-1, err>> ELSE <<m.selectedIdx, NilError>>

\* --------------------------------------------------------------------- list
\* The list collaborator (bubbles list.Model) as the wrapper uses it: the number
\* of items, Index(), and the size set by SetSize.
\* list.New(listItems, delegate, 0, 0)
BubblesListNew(n) == [n |-> n, index |-> 0, width |-> 0, height |-> 0]

\* m.List.Update(msg) with the collaborator's default key map, in browsing
\* mode: ctrl+c is its force-quit key, q and esc are its quit keys, up/k and
\* down/j move the cursor without wrapping, anything else leaves it alone.
BubblesListUpdate(l, msg) ==
    IF msg \in {"ctrl+c", "q", "esc"} THEN [l |-> l, cmd |-> QuitCmd]
    ELSE IF msg \in {"up", "k"} THEN
        [l |-> [l EXCEPT !.index = Max(0, l.index - 1)], cmd |-> NoCmd]
    ELSE IF msg \in {"down", "j"} THEN
        [l |-> [l EXCEPT !.index = Max(0, Min(l.n - 1, l.index + 1))],
         cmd |-> NoCmd]
    ELSE [l |-> l, cmd |-> NoCmd]

\* m.List.SetItems(items) before the list has a size: the collaborator shows
\* one item per page, so its index is its page, and its pagination update
\* brings a page past the last one back to the last one (page 0 for no items).
BubblesListSetItems(l, n) ==
    [l EXCEPT !.n = n, !.index = Min(l.index, Max(0, n - 1))]

\* list.New
ListNew(n) ==
    [List |-> BubblesListNew(n), selectedIdx |-> 0, cancelable |-> TRUE,
     quitable |-> TRUE, canceled |-> FALSE, quit |-> FALSE]

\* list.Model.WithSelectedIndex: clamp, then List.Select(i)
ListWithSelectedIndex(m, i) ==
    LET j == IF i < 0 THEN 0
             ELSE IF i > m.List.n - 1 THEN m.List.n - 1
             ELSE i
    IN  [m EXCEPT !.List.index = j]

\* list.Model.WithItems: the copy's List gets the new items
ListWithItems(m, n) == [m EXCEPT !.List = BubblesListSetItems(m.List, n)]

\* list.Model.WithCancel, list.Model.WithQuit
ListWithCancel(m, cancelable) == [m EXCEPT !.cancelable = cancelable]
ListWithQuit(m, quitable) == [m EXCEPT !.quitable = quitable]

\* list.Model.Update, case "enter"
ListEnter(m) ==
    [m EXCEPT !.canceled = FALSE, !.quit = FALSE, !.selectedIdx = m.List.index]

\* An esc that raises both flags, as the ctrl+c case does.
ListEsc_bothFlags(m) ==
    [m EXCEPT !.selectedIdx = -1, !.canceled = TRUE, !.quit = TRUE]

\* An esc that ends the run without raising canceled.
ListEsc_noFlag(m) == [m EXCEPT !.selectedIdx = -1]

\* list.Model.Update, case "esc" when cancelable
ListEsc(m) == [m EXCEPT !.selectedIdx = -1, !.canceled = TRUE, !.quit = FALSE]

\* list.Model.Update, case "ctrl+c" when quitable
ListCtrlC(m) == [m EXCEPT !.selectedIdx = -1, !.canceled = TRUE, !.quit = TRUE]

\* list.Model.Update: the wrapper's own cases return; everything else (a
\* disabled esc or ctrl+c included) falls through to m.List.Update(msg).  A
\* window size message (80 x 24 here) first sets the size less the frame of
\* docStyle, Margin(1, 2): 4 columns and 2 rows.
ListUpdate(m, msg) ==
    IF msg = "enter" THEN [m |-> ListEnter(m), cmd |-> QuitCmd]
    ELSE IF msg = "esc" /\ m.cancelable THEN [m |-> ListEsc(m), cmd |-> QuitCmd]
    ELSE IF msg = "ctrl+c" /\ m.quitable THEN [m |-> ListCtrlC(m), cmd |-> QuitCmd]
    ELSE
        LET sized == IF msg = "resize"
                     THEN [m EXCEPT !.List.width = 80 - 4, !.List.height = 24 - 2]
                     ELSE m
            r == BubblesListUpdate(sized.List, msg)
        IN  [m |-> [sized EXCEPT !.List = r.l], cmd |-> r.cmd]

\* -------------------------------------------------------------------- texts
\* A character is a one-character string; a character that a string of this
\* module cannot hold is written as its code point.
VT == "U+000B"
NEL == "U+0085"
NBSP == "U+00A0"

\* unicode.IsSpace, which the strings.Trim* functions of the widgets use: the
\* Latin-1 spaces \t \n \v \f \r, space, U+0085 and U+00A0, and the
\* characters of the Unicode White_Space property above Latin-1.
UnicodeSpaces ==
    {"U+1680", "U+2000", "U+2001", "U+2002", "U+2003", "U+2004", "U+2005",
     "U+2006", "U+2007", "U+2008", "U+2009", "U+200A", "U+2028", "U+2029",
     "U+202F", "U+205F", "U+3000"}
IsSpace(c) ==
    c \in {"\t", NL, VT, "\f", "\r", " ", NEL, NBSP} \cup UnicodeSpaces

RECURSIVE TrimLeft(_)
TrimLeft(s) == IF s # <<>> /\ IsSpace(Head(s)) THEN TrimLeft(Tail(s)) ELSE s

RECURSIVE TrimRight(_)
TrimRight(s) ==
    IF s # <<>> /\ IsSpace(s[Len(s)]) THEN TrimRight(SubSeq(s, 1, Len(s) - 1)) ELSE s

\* strings.TrimSpace
TrimSpace(s) == TrimRight(TrimLeft(s))

\* strings.Split(s, "\n"): one more piece than there are newlines
RECURSIVE Split(_)
Split(s) ==
    IF \A i \in 1..Len(s) : s[i] # NL THEN <<s>>
    ELSE LET i == CHOOSE k \in 1..Len(s) :
                      s[k] = NL /\ \A j \in 1..(k - 1) : s[j] # NL
         IN  <<SubSeq(s, 1, i - 1)>> \o Split(SubSeq(s, i + 1, Len(s)))

\* strings.Join(lines, "\n")
RECURSIVE Join(_)
Join(lines) ==
    IF Len(lines) = 0 THEN <<>>
    ELSE IF Len(lines) = 1 THEN lines[1]
    ELSE lines[1] \o <<NL>> \o Join(Tail(lines))

\* -------------------------------------------------------------------- input
\* The text input collaborator (bubbles textinput.Model): its value and its
\* character limit; the cursor stays at the end, since no cursor key is sent.
\* input.New: SetValue(value) before the limit is set, then CharLimit = 100.
InputNew(value) ==
    [textInput |-> [value |-> value, CharLimit |-> InputCharLimit],
     abort |-> FALSE, cancelable |-> TRUE, quitable |-> TRUE,
     canceled |-> FALSE, quit |-> FALSE]

\* input.Model.WithCharLimit: the limit of the copy's field; its value stays
InputWithCharLimit(m, n) == [m EXCEPT !.textInput.CharLimit = n]

\* input.Model.WithCancel, input.Model.WithQuit
InputWithCancel(m, cancelable) == [m EXCEPT !.cancelable = cancelable]
InputWithQuit(m, quitable) == [m EXCEPT !.quitable = quitable]

\* m.textInput.Update(msg): a printable key is appended while the limit allows
BubblesTextInputUpdate(t, msg) ==
    IF msg \in {"a", " "} /\ (t.CharLimit <= 0 \/ Len(t.value) < t.CharLimit)
    THEN [t EXCEPT !.value = Append(t.value, msg)]
    ELSE t

\* An Init that puts the configuration back to its defaults.
InputInit_resetsConfig(m) ==
    [m EXCEPT !.abort = FALSE, !.cancelable = TRUE, !.quitable = TRUE]

\* input.Model.Init
InputInit(m) == [m EXCEPT !.abort = FALSE]

\* An esc that cancels only where cancelable is set.
InputEsc_whenCancelable(m) ==
    IF m.cancelable THEN [m EXCEPT !.canceled = TRUE, !.quit = FALSE] ELSE m

\* input.Model.Update, case "esc": cancelable is not looked at
InputEsc(m) == [m EXCEPT !.canceled = TRUE, !.quit = FALSE]

\* input.Model.Update, case "ctrl+c": quitable is not looked at
InputCtrlC(m) == [m EXCEPT !.canceled = TRUE, !.quit = TRUE]

\* input.Model.Update
InputUpdate(m, msg) ==
    IF msg = "enter" THEN
        [m |-> [m EXCEPT !.canceled = FALSE, !.quit = FALSE], cmd |-> QuitCmd]
    ELSE IF msg = "esc" THEN [m |-> InputEsc(m), cmd |-> QuitCmd]
    ELSE IF msg = "ctrl+c" THEN [m |-> InputCtrlC(m), cmd |-> QuitCmd]
    ELSE [m |-> [m EXCEPT !.textInput = BubblesTextInputUpdate(m.textInput, msg)],
          cmd |-> NoCmd]

\* ----------------------------------------------------------------- textarea
\* The text area collaborator (bubbles textarea.Model): its value (the lines
\* joined by newlines), its focus and its limits; the cursor stays at the end.
\* textarea.Model.SetValue: Reset, then insert what the limits allow: at most
\* CharLimit characters, and of their lines at most MaxHeight.
BubblesTextareaSetValue(t, s) ==
    LET runes == IF t.CharLimit > 0 /\ t.CharLimit < Len(s)
                 THEN SubSeq(s, 1, t.CharLimit) ELSE s
        lines == Split(runes)
        kept  == IF t.MaxHeight > 0 /\ Len(lines) > t.MaxHeight
                 THEN SubSeq(lines, 1, t.MaxHeight) ELSE lines
    IN  [t EXCEPT !.value = Join(kept)]

\* m.textInput.Update(msg): nothing while blurred; enter adds a line unless
\* MaxHeight lines exist; a printable key is appended while CharLimit allows.
BubblesTextareaUpdate(t, msg) ==
    IF ~t.focus THEN t
    ELSE IF msg = "enter" THEN
        IF t.MaxHeight > 0 /\ Len(Split(t.value)) >= t.MaxHeight THEN t
        ELSE [t EXCEPT !.value = Append(t.value, NL)]
    ELSE IF msg \in {"a", " "} THEN
        IF t.CharLimit > 0 /\ Len(t.value) >= t.CharLimit THEN t
        ELSE [t EXCEPT !.value = Append(t.value, msg)]
    ELSE t

\* textarea.New: SetValue(value) under the collaborator's own defaults (400
\* characters, 99 lines), Focus, then CharLimit = 100 and MaxHeight = 10.
TextareaNew(value) ==
    LET t0 == [value |-> <<>>, focus |-> FALSE, CharLimit |-> 400, MaxHeight |-> 99]
        t1 == BubblesTextareaSetValue(t0, value)
    IN  [textInput |-> [t1 EXCEPT !.focus = TRUE,
                                  !.CharLimit = TextareaCharLimit,
                                  !.MaxHeight = TextareaMaxHeight],
         cancelable |-> TRUE, quitable |-> TRUE,
         canceled |-> FALSE, quit |-> FALSE]

\* textarea.Model.WithCancel, textarea.Model.WithQuit
TextareaWithCancel(m, cancelable) == [m EXCEPT !.cancelable = cancelable]
TextareaWithQuit(m, quitable) == [m EXCEPT !.quitable = quitable]

\* textarea.Model.WithCharLimit, textarea.Model.WithMaxHeight: the field of
\* the collaborator is set; the text it already holds is left as it is.
TextareaWithCharLimit(m, n) == [m EXCEPT !.textInput.CharLimit = n]
TextareaWithMaxHeight(m, n) == [m EXCEPT !.textInput.MaxHeight = n]

\* The enter case, the lines after the loop: the value split on newlines,
\* every line trimmed.
TextareaTrimmed(m) ==
    LET lines == Split(m.textInput.value)
    IN  [i \in 1..Len(lines) |-> TrimSpace(lines[i])]

\* The enter case up to the terminator test: the trimmed lines rejoined and
\* stored with SetValue.
TextareaNormalize(m) ==
    [m EXCEPT !.textInput = BubblesTextareaSetValue(m.textInput, Join(TextareaTrimmed(m)))]

\* A terminator test that looks at the first line instead of the last.
TextareaTerminator_firstLine(lines) == Len(lines) > 0 /\ lines[1] = <<>>

\* The terminator test: len(lines) > 0 && lines[len(lines)-1] == ""
TextareaTerminator(lines) == Len(lines) > 0 /\ lines[Len(lines)] = <<>>

\* An esc that also writes the normalized text back, as enter does.
TextareaEsc_normalizes(m) ==
    [TextareaNormalize(m) EXCEPT !.textInput.focus = FALSE,
                                 !.canceled = TRUE, !.quit = FALSE]

\* textarea.Model.Update, case "esc": Blur, then the flags
TextareaEsc(m) ==
    [m EXCEPT !.textInput.focus = FALSE, !.canceled = TRUE, !.quit = FALSE]

\* A ctrl+c that raises quit alone.
TextareaCtrlC_quitOnly(m) == [m EXCEPT !.canceled = FALSE, !.quit = TRUE]

\* textarea.Model.Update, case "ctrl+c"
TextareaCtrlC(m) == [m EXCEPT !.canceled = TRUE, !.quit = TRUE]

\* textarea.Model.Update: esc and ctrl+c do not look at cancelable or quitable;
\* an enter that does not terminate is handed on to the collaborator.
TextareaUpdate(m, msg) ==
    IF msg = "enter" THEN
        LET n == TextareaNormalize(m)
        IN  IF TextareaTerminator(TextareaTrimmed(m))
            THEN [m |-> [n EXCEPT !.canceled = FALSE, !.quit = FALSE], cmd |-> QuitCmd]
            ELSE [m |-> [n EXCEPT !.textInput = BubblesTextareaUpdate(n.textInput, msg)],
                  cmd |-> NoCmd]
    ELSE IF msg = "esc" THEN [m |-> TextareaEsc(m), cmd |-> QuitCmd]
    ELSE IF msg = "ctrl+c" THEN [m |-> TextareaCtrlC(m), cmd |-> QuitCmd]
    ELSE [m |-> [m EXCEPT !.textInput = BubblesTextareaUpdate(m.textInput, msg)],
          cmd |-> NoCmd]

\* ------------------------------------------------------------ the run loop
(***************************************************************************)
(* kind     which widget the run is about                                  *)
(* m        the widget model (the pointer handed to tea.NewProgram)        *)
(* phase    "config": built, builder calls still being applied;            *)
(*          "running": inside Program.Run, no tea.Quit returned yet;       *)
(*          "stopping": Update returned tea.Quit, the quit message is not  *)
(*          handled yet, so queued messages still reach Update;            *)
(*          "ended": Program.Run returned; "resolved": the resolver ran    *)
(* nconf    builder calls applied; nmsgs  messages handed to Update;       *)
(* late     messages handed to Update while stopping                       *)
(* lastMsg, lastCmd   the last message handed to Update, what it returned  *)
(* runErr   the error Program.Run returned; result  the resolver's answer  *)
(***************************************************************************)
\* built: the last builder call a caller made while keeping its receiver (the
\* receiver and the call), empty where the receivers are the temporaries of a
\* chain, as in the runs of ui.Run.
VARIABLES kind, m, phase, nconf, nmsgs, late, lastMsg, lastCmd, runErr, result,
          built

vars == <<kind, m, phase, nconf, nmsgs, late, lastMsg, lastCmd, runErr, result,
          built>>

\* Initial texts of the text widgets (a text input holds one line).
InputValues == {<<>>, <<"a">>, <<" ", "a">>}
TextValues ==
    {<<>>, <<"a">>, <<" ", "a", " ">>, <<"a", NL>>, <<"a", NL, " ", "a">>,
     <<"a", NL, "a">>, <<"a", " ", "a">>, <<NBSP, "a", NL>>}

\* The messages sent to each widget: its keys, one key it has no case for,
\* and a window size message.
Msgs(k) ==
    CASE k = "Picker" ->
           {"up", "down", "left", "right", "j", "k", "enter", "esc", "ctrl+c", "x", "resize"}
      [] k = "List" ->
           {"up", "down", "j", "k", "enter", "esc", "ctrl+c", "q", "x", "resize"}
      [] OTHER -> {"a", " ", "enter", "esc", "ctrl+c", "resize"}

\* The arguments tried for WithSelectedIndex.
IdxArgs == (0 - 2)..(MaxItems + 1)

\* Arguments of WithCharLimit and WithMaxHeight: limits that the texts of
\* TextValues reach, exceed, or stay below.
CharLimitArgs == {2, 3}
MaxHeightArgs == {1, 2}

NewModels(k) ==
    CASE k = "List" -> {ListNew(n) : n \in 0..MaxItems}
      [] k = "Picker" -> {PickNew(PickItems(n)) : n \in 0..MaxItems}
                         \cup {PickNew(PickDefaultItems)}
      [] k = "TextInput" -> {InputNew(v) : v \in InputValues}
      [] OTHER -> {TextareaNew(v) : v \in TextValues}

\* The widget's Update, by package.
Update(k, model, msg) ==
    CASE k = "List" -> ListUpdate(model, msg)
      [] k = "Picker" -> PickUpdate(model, msg)
      [] k = "TextInput" -> InputUpdate(model, msg)
      [] OTHER -> TextareaUpdate(model, msg)

Init ==
    /\ kind \in Kinds
    /\ m \in NewModels(kind)
    /\ phase = "config"
    /\ nconf = 0
    /\ nmsgs = 0
    /\ late = 0
    /\ lastMsg = "none"
    /\ lastCmd = NoCmd
    /\ runErr = NilError
    /\ result = "none"
    /\ built = <<>>

\* m = m.WithCancel(b)
WithCancel(b) ==
    /\ phase = "config" /\ nconf < MaxConf
    /\ m' = CASE kind = "List" -> ListWithCancel(m, b)
              [] kind = "Picker" -> PickWithCancel(m, b)
              [] kind = "TextInput" -> InputWithCancel(m, b)
              [] OTHER -> TextareaWithCancel(m, b)
    /\ nconf' = nconf + 1
    /\ UNCHANGED <<built, kind, phase, nmsgs, late, lastMsg, lastCmd, runErr, result>>

\* m = m.WithQuit(b)
WithQuit(b) ==
    /\ phase = "config" /\ nconf < MaxConf
    /\ m' = CASE kind = "List" -> ListWithQuit(m, b)
              [] kind = "Picker" -> PickWithQuit(m, b)
              [] kind = "TextInput" -> InputWithQuit(m, b)
              [] OTHER -> TextareaWithQuit(m, b)
    /\ nconf' = nconf + 1
    /\ UNCHANGED <<built, kind, phase, nmsgs, late, lastMsg, lastCmd, runErr, result>>

\* m = m.WithItems(items...), List
WithItems(n) ==
    /\ phase = "config" /\ nconf < MaxConf
    /\ kind = "List"
    /\ m' = ListWithItems(m, n)
    /\ nconf' = nconf + 1
    /\ UNCHANGED <<built, kind, phase, nmsgs, late, lastMsg, lastCmd, runErr, result>>

\* m = m.WithCharLimit(n), TextInput and TextArea
WithCharLimit(n) ==
    /\ phase = "config" /\ nconf < MaxConf
    /\ kind \in {"TextInput", "TextArea"}
    /\ m' = IF kind = "TextInput" THEN InputWithCharLimit(m, n)
            ELSE TextareaWithCharLimit(m, n)
    /\ nconf' = nconf + 1
    /\ UNCHANGED <<built, kind, phase, nmsgs, late, lastMsg, lastCmd, runErr, result>>

\* m = m.WithMaxHeight(n), TextArea
WithMaxHeight(n) ==
    /\ phase = "config" /\ nconf < MaxConf
    /\ kind = "TextArea"
    /\ m' = TextareaWithMaxHeight(m, n)
    /\ nconf' = nconf + 1
    /\ UNCHANGED <<built, kind, phase, nmsgs, late, lastMsg, lastCmd, runErr, result>>

\* m = m.WithSelectedIndex(i), List and Picker
WithSelectedIndex(i) ==
    /\ phase = "config" /\ nconf < MaxConf
    /\ kind \in {"List", "Picker"}
    /\ m' = IF kind = "List" THEN ListWithSelectedIndex(m, i)
            ELSE PickWithSelectedIndex(m, i)
    /\ nconf' = nconf + 1
    /\ UNCHANGED <<built, kind, phase, nmsgs, late, lastMsg, lastCmd, runErr, result>>

\* ui.Run: tea.NewProgram(m).Run() starts and calls m.Init()
Start ==
    /\ phase = "config"
    /\ phase' = "running"
    /\ m' = IF kind = "TextInput" THEN InputInit(m) ELSE m
    /\ UNCHANGED <<built, kind, nconf, nmsgs, late, lastMsg, lastCmd, runErr, result>>

\* The loop hands one message to Update.  A returned tea.Quit is only a
\* command: its quit message is queued behind the messages read meanwhile.
Deliver(msg) ==
    /\ phase \in {"running", "stopping"}
    /\ nmsgs < MaxMsgs
    /\ phase = "stopping" => late < MaxLate
    /\ msg \in Msgs(kind)
    /\ LET r == Update(kind, m, msg)
       IN  /\ m' = r.m
           /\ lastCmd' = r.cmd
           /\ phase' = IF r.cmd = QuitCmd THEN "stopping" ELSE phase
    /\ lastMsg' = msg
    /\ nmsgs' = nmsgs + 1
    /\ late' = IF phase = "stopping" THEN late + 1 ELSE late
    /\ UNCHANGED <<built, kind, nconf, runErr, result>>

\* The loop handles the quit message: Program.Run returns a nil error.
Stop ==
    /\ phase = "stopping"
    /\ phase' = "ended"
    /\ runErr' = NilError
    /\ UNCHANGED <<built, kind, m, nconf, nmsgs, late, lastMsg, lastCmd, result>>

\* The event loop fails (terminal I/O): Program.Run returns the error.
Fail ==
    /\ phase \in {"running", "stopping"}
    /\ phase' = "ended"
    /\ runErr' = IOError
    /\ UNCHANGED <<built, kind, m, nconf, nmsgs, late, lastMsg, lastCmd, result>>

\* ui.Run after Program.Run: err = ErrorOrValidate(err, m)
Resolve ==
    /\ phase = "ended"
    /\ phase' = "resolved"
    /\ result' = ErrorOrValidate(runErr, m)
    /\ UNCHANGED <<built, kind, m, nconf, nmsgs, late, lastMsg, lastCmd, runErr>>

Next ==
    \/ \E b \in BOOLEAN : WithCancel(b)
    \/ \E b \in BOOLEAN : WithQuit(b)
    \/ \E i \in IdxArgs : WithSelectedIndex(i)
    \/ \E n \in 0..MaxItems : WithItems(n)
    \/ \E n \in CharLimitArgs : WithCharLimit(n)
    \/ \E n \in MaxHeightArgs : WithMaxHeight(n)
    \/ Start
    \/ \E msg \in Msgs(kind) : Deliver(msg)
    \/ Stop
    \/ Fail
    \/ Resolve

Spec == Init /\ [][Next]_vars

\* ------------------------------------------------- builders, receiver kept
\* A caller that keeps the receiver of a builder call next to the model the
\* call returned, and hands messages to the Update of either.
\* The builder calls of the four widgets that are tried.
Calls(k) ==
    LET call(w, b, i, s) == [with |-> w, b |-> b, i |-> i, s |-> s]
        flags == {call(w, b, 0, "") : w \in {"WithCancel", "WithQuit"}, b \in BOOLEAN}
    IN  IF k = "Picker"
        THEN flags \cup {call("WithHorizontal", b, 0, "") : b \in BOOLEAN}
                   \cup {call("WithLabel", FALSE, 0, "Pick")}
                   \cup {call("WithSelectedIndex", FALSE, i, "") : i \in IdxArgs}
        ELSE flags

\* The model a builder call returns, by package.
Apply(k, model, c) ==
    CASE c.with = "WithCancel" ->
           (CASE k = "List" -> ListWithCancel(model, c.b)
              [] k = "Picker" -> PickWithCancel(model, c.b)
              [] k = "TextInput" -> InputWithCancel(model, c.b)
              [] OTHER -> TextareaWithCancel(model, c.b))
      [] c.with = "WithQuit" ->
           (CASE k = "List" -> ListWithQuit(model, c.b)
              [] k = "Picker" -> PickWithQuit(model, c.b)
              [] k = "TextInput" -> InputWithQuit(model, c.b)
              [] OTHER -> TextareaWithQuit(model, c.b))
      [] c.with = "WithHorizontal" -> PickWithHorizontal(model, c.b)
      [] c.with = "WithLabel" -> PickWithLabel(model, c.s)
      [] OTHER -> PickWithSelectedIndex(model, c.i)

\* n := m.WithX(arg): newModel := *m copies the receiver, the named field of
\* the copy is set, and the caller holds both m and n.
Build(c) ==
    /\ nconf < MaxConf /\ nmsgs = 0
    /\ built' = <<[recv |-> m, call |-> c]>>
    /\ m' = Apply(kind, m, c)
    /\ nconf' = nconf + 1
    /\ UNCHANGED <<kind, phase, nmsgs, late, lastMsg, lastCmd, runErr, result>>

\* n.Update(msg): Update writes through its pointer receiver, the model the
\* builder returned.
UpdateResult(msg) ==
    /\ built # <<>> /\ nmsgs < MaxBuiltMsgs
    /\ m' = Update(kind, m, msg).m
    /\ lastMsg' = msg
    /\ nmsgs' = nmsgs + 1
    /\ UNCHANGED <<built, kind, phase, nconf, late, lastCmd, runErr, result>>

\* m.Update(msg) on the receiver of the builder call.
UpdateReceiver(msg) ==
    /\ built # <<>> /\ nmsgs < MaxBuiltMsgs
    /\ built' = <<[built[1] EXCEPT !.recv = Update(kind, built[1].recv, msg).m]>>
    /\ lastMsg' = msg
    /\ nmsgs' = nmsgs + 1
    /\ UNCHANGED <<kind, m, phase, nconf, late, lastCmd, runErr, result>>

NextBuilders ==
    \/ \E c \in Calls(kind) : Build(c)
    \/ \E msg \in Msgs(kind) : UpdateResult(msg)
    \/ \E msg \in Msgs(kind) : UpdateReceiver(msg)

SpecBuilders == Init /\ [][NextBuilders]_vars

\* ------------------------------------------------------------------ claims
\* One message was handed to Update in this step.
Delivered == nmsgs' = nmsgs + 1

\* C1: with a nil run error and Quit() true the resolver returns QuitError,
\* also when Canceled() is true as well (quit takes precedence over cancel).
C1_QuitTakesPrecedence ==
    (phase = "resolved" /\ runErr = NilError /\ m.quit) => result = QuitError

\* C2: for a widget with quitable = true, a ctrl+c that follows only
\* non-terminating keys and is followed by the resolver with a nil run error
\* yields QuitError.
C2_CtrlCYieldsQuit ==
    (phase = "resolved" /\ runErr = NilError /\ m.quitable
        /\ lastMsg = "ctrl+c" /\ late = 0)
    => result = QuitError

\* C3: a non-nil run error is returned unchanged, whatever the flags are.
C3_RawErrorUnchanged ==
    (phase = "resolved" /\ runErr # NilError) => result = runErr

C3_Witness ==
    phase = "resolved" /\ runErr = IOError /\ m.canceled /\ m.quit /\ result = IOError

\* C4: the resolver returns nil exactly when the run error is nil and both
\* flags are false; otherwise it returns the run error when there is one, and
\* else QuitError or CanceledError.
C4_NilIffClean ==
    phase = "resolved" =>
        /\ (result = NilError) <=> (runErr = NilError /\ ~m.canceled /\ ~m.quit)
        /\ result # NilError =>
              \/ runErr # NilError /\ result = runErr
              \/ runErr = NilError /\ result \in {QuitError, CanceledError}

C4_Witness ==
    /\ phase = "resolved" /\ runErr = NilError /\ result = QuitError
    /\ m.quit /\ ~m.canceled

\* C5: with cancelable = true, an esc handed to a running widget leaves
\* canceled = true and quit = false and returns tea.Quit.
C5_EscCancels ==
    [][(Delivered /\ lastMsg' = "esc" /\ phase = "running" /\ m.cancelable)
         => (m'.canceled /\ ~m'.quit /\ lastCmd' = QuitCmd)]_vars

C5_Witness ==
    /\ kind = "List" /\ phase = "stopping" /\ late = 0 /\ nmsgs > 1
    /\ lastMsg = "esc" /\ m.cancelable /\ m.canceled /\ ~m.quit

\* C6: with quitable = true, a ctrl+c handed to a running widget
\* leaves canceled = true and quit = true and returns tea.Quit.
C6_CtrlCSetsBothFlags ==
    [][(Delivered /\ lastMsg' = "ctrl+c" /\ phase = "running" /\ m.quitable)
         => (m'.canceled /\ m'.quit /\ lastCmd' = QuitCmd)]_vars

\* C7: before a terminating transition both canceled and quit are false, and
\* after one at most one of them is true.
C7_FlagsExclusive ==
    /\ phase \in {"config", "running"} => (~m.canceled /\ ~m.quit)
    /\ phase \in {"stopping", "ended", "resolved"} => ~(m.canceled /\ m.quit)

\* C8: for List, Picker and TextArea with cancelable = false, an esc neither
\* sets canceled nor returns the command that ends the run.
C8_DisabledEscInert ==
    [][(Delivered /\ lastMsg' = "esc" /\ kind \in {"List", "Picker", "TextArea"}
          /\ ~m.cancelable)
         => ((m'.canceled => m.canceled) /\ lastCmd' # QuitCmd)]_vars

\* C9: for every widget with quitable = false, a ctrl+c sets neither quit nor
\* canceled and does not return the command that ends the run.
C9_DisabledCtrlCInert ==
    [][(Delivered /\ lastMsg' = "ctrl+c" /\ ~m.quitable)
         => ((m'.quit => m.quit) /\ (m'.canceled => m.canceled)
             /\ lastCmd' # QuitCmd)]_vars

\* C10: a Picker built from N > 0 items, whatever WithSelectedIndex was given,
\* has its selected index within [0, N-1] as long as no key has terminated it.
C10_PickIndexInRange ==
    (kind = "Picker" /\ Len(m.items) > 0 /\ phase \in {"config", "running"})
    => m.selectedIdx \in 0..(Len(m.items) - 1)

C10_Witness ==
    /\ kind = "Picker" /\ phase = "running" /\ nmsgs >= 3
    /\ Len(m.items) = MaxItems /\ lastMsg = "down" /\ m.selectedIdx = 0

\* C11: Picker navigation is cyclic: with N > 0 items and the index i within
\* [0, N-1], down and right move it to (i+1) mod N, up and left to (i-1) mod N.
C11_PickNavigationCyclic ==
    [][(Delivered /\ kind = "Picker" /\ Len(m.items) > 0
          /\ m.selectedIdx \in 0..(Len(m.items) - 1))
         => LET N == Len(m.items)
                i == m.selectedIdx
            IN  /\ lastMsg' \in {"down", "right"} => m'.selectedIdx = (i + 1) % N
                /\ lastMsg' \in {"up", "left"} => m'.selectedIdx = (i - 1 + N) % N]_vars

C11_Witness ==
    /\ kind = "Picker" /\ phase = "running" /\ nconf = 0 /\ nmsgs = 1
    /\ lastMsg = "up" /\ Len(m.items) = MaxItems
    /\ m.selectedIdx = Len(m.items) - 1

\* C12: an enter handed to a running Picker with N > 0 items and index i
\* returns tea.Quit with canceled = false, quit = false and the index still i;
\* when the run then ends with that enter as its last message, the resolver
\* returns nil, SelectedIdx() is within [0, N-1] and SelectedItem() is
\* items[SelectedIdx()].
C12_PickEnterConfirms ==
    [][/\ (Delivered /\ kind = "Picker" /\ Len(m.items) > 0 /\ phase = "running"
             /\ lastMsg' = "enter")
          => (lastCmd' = QuitCmd /\ ~m'.canceled /\ ~m'.quit
              /\ m'.selectedIdx = m.selectedIdx
              /\ PickSelectedItem(m') = GoIndex(m.items, m.selectedIdx))
       /\ (phase = "ended" /\ phase' = "resolved" /\ kind = "Picker"
             /\ Len(m.items) > 0 /\ lastMsg = "enter" /\ late = 0
             /\ runErr = NilError)
          => (result' = NilError /\ m' = m
              /\ m.selectedIdx \in 0..(Len(m.items) - 1)
              /\ PickSelectedItem(m') = GoIndex(m.items, m.selectedIdx)
              /\ PickSelectedItem(m') # Panic)]_vars

C12_Witness ==
    /\ kind = "Picker" /\ phase = "resolved" /\ m.items = PickDefaultItems
    /\ nconf = 0 /\ nmsgs = 1 /\ lastMsg = "enter" /\ result = NilError
    /\ m.selectedIdx = 0 /\ PickSelectedItem(m) = "yes"

\* C13: for a List with cancelable = true, an esc that follows only
\* non-terminating keys and is followed by the resolver with a nil run error
\* yields CanceledError.
C13_ListEscCanceled ==
    (kind = "List" /\ phase = "resolved" /\ runErr = NilError /\ m.cancelable
        /\ lastMsg = "esc" /\ late = 0)
    => result = CanceledError

C13_Witness ==
    /\ kind = "List" /\ phase = "resolved" /\ runErr = NilError /\ m.cancelable
    /\ m.List.n = MaxItems /\ m.List.index > 0 /\ nmsgs >= 2
    /\ lastMsg = "esc" /\ late = 0 /\ result = CanceledError

\* The text after the last newline of s (all of s when it has none).
RECURSIVE LastLine(_)
LastLine(s) ==
    IF s = <<>> \/ s[Len(s)] = NL THEN <<>>
    ELSE Append(LastLine(SubSeq(s, 1, Len(s) - 1)), s[Len(s)])

\* C14: an enter handed to a running TextArea returns tea.Quit, with
\* canceled = false and quit = false, exactly when the last line of the text
\* consists of whitespace only; otherwise the widget keeps running.
C14_TextareaEnterTerminates ==
    [][(Delivered /\ kind = "TextArea" /\ phase = "running" /\ lastMsg' = "enter")
         => LET blank == \A i \in 1..Len(LastLine(m.textInput.value)) :
                             IsSpace(LastLine(m.textInput.value)[i])
            IN  /\ blank => (lastCmd' = QuitCmd /\ phase' = "stopping"
                             /\ ~m'.canceled /\ ~m'.quit)
                /\ ~blank => (lastCmd' = NoCmd /\ phase' = "running")]_vars

\* The text "a\n" followed by enter terminates with the value "a\n".
C14_Witness ==
    /\ kind = "TextArea" /\ phase = "stopping" /\ late = 0 /\ nmsgs = 1
    /\ lastMsg = "enter" /\ lastCmd = QuitCmd /\ ~m.canceled /\ ~m.quit
    /\ m.textInput.value = <<"a", NL>>

\* The normalization of a text: split on newlines, every line trimmed, the
\* lines rejoined with newlines in the same order and number.
Normalized(s) == Join([i \in 1..Len(Split(s)) |-> TrimSpace(Split(s)[i])])

\* C15: every enter handed to a TextArea replaces the stored text by its
\* normalization: after a terminating enter the text is the normalization of
\* the text before, after any other enter it is that normalization, followed
\* by the newline of the editor where the key was forwarded to it.
C15_EnterNormalizes ==
    [][(Delivered /\ kind = "TextArea" /\ lastMsg' = "enter")
         => LET norm == Normalized(m.textInput.value)
            IN  IF lastCmd' = QuitCmd THEN m'.textInput.value = norm
                ELSE m'.textInput.value \in {norm, Append(norm, NL)}]_vars

\* C16: for a List or a Picker with at least one item, the stored selected
\* index is -1 exactly when canceled or quit is set, and is an index of the
\* items, 0..N-1, in every other state.
C16_IndexMinusOneIffEnded ==
    (kind \in {"List", "Picker"}
       /\ (IF kind = "List" THEN m.List.n ELSE Len(m.items)) > 0)
      => LET N == IF kind = "List" THEN m.List.n ELSE Len(m.items)
         IN  /\ (m.selectedIdx = -1) <=> (m.canceled \/ m.quit)
             /\ ~(m.canceled \/ m.quit) => m.selectedIdx \in 0..(N - 1)

\* The widget answered its last key, enter, esc or ctrl+c, with tea.Quit from
\* its own case of Update, and the loop has not handled the quit message yet.
Terminated ==
    /\ phase = "stopping" /\ late = 0
    /\ lastMsg \in {"enter", "esc", "ctrl+c"}
    /\ (kind \in {"List", "Picker"} /\ lastMsg = "esc") => m.cancelable
    /\ (kind \in {"List", "Picker"} /\ lastMsg = "ctrl+c") => m.quitable

\* The outcome a caller reads from the widget: the flags, and the selected
\* index or the text.
Outcome(k, model) ==
    <<model.canceled, model.quit,
      IF k \in {"List", "Picker"} THEN model.selectedIdx
      ELSE model.textInput.value>>

\* C17: after a terminating transition a further message handed to Update
\* before the loop stops changes neither the flags nor the selected index or
\* the text.
C17_TerminalImmutable ==
    [][(Terminated /\ Delivered) => Outcome(kind, m') = Outcome(kind, m)]_vars

\* C18: the loop starts to end only when Update answers an enter, a
\* canceling esc or a quitting ctrl+c, or when it fails; the resolved run
\* reports nil, CanceledError, QuitError or the loop's own error, the last
\* exactly when the loop failed; and a run of a single message that resolves
\* to nil had that message be an enter.
C18_RunEndsByTransition ==
    /\ [][(Delivered /\ phase = "running" /\ phase' = "stopping")
            => \/ lastMsg' = "enter"
               \/ lastMsg' = "esc" /\ m'.canceled
               \/ lastMsg' = "ctrl+c" /\ (m'.quit \/ m'.canceled)]_vars
    /\ [](phase = "resolved"
            => /\ result \in {NilError, CanceledError, QuitError, IOError}
               /\ (result = IOError) <=> (runErr = IOError)
               /\ (result = NilError /\ nmsgs = 1) => lastMsg = "enter")

\* C19: pick.Pick (items present, esc and ctrl+c enabled) returns -1 with
\* the error when the run was canceled, quit or failed, and otherwise nil
\* with an index in 0..N-1: never a negative index with a nil error.
C19_PickIndexOrError ==
    (kind = "Picker" /\ phase = "resolved" /\ Len(m.items) > 0
       /\ m.cancelable /\ m.quitable)
      => LET r == PickReturn(result, m)
         IN  /\ (runErr = IOError \/ m.canceled \/ m.quit)
                   => (r[1] = -1 /\ r[2] # NilError)
             /\ r[2] # NilError => r[1] = -1
             /\ r[2] = NilError => r[1] \in 0..(Len(m.items) - 1)

\* C20: Picker.SelectedItem never indexes out of range; it returns the empty
\* string when the run was ended by esc or ctrl+c (canceled or quit is set)
\* or the index is outside 0..N-1, and items[SelectedIdx()] otherwise.
C20_SelectedItemOrEmpty ==
    kind = "Picker"
      => /\ PickSelectedItem(m) # Panic
         /\ IF m.canceled \/ m.quit
               \/ m.selectedIdx \notin 0..(Len(m.items) - 1)
            THEN PickSelectedItem(m) = ""
            ELSE PickSelectedItem(m) = GoIndex(m.items, m.selectedIdx)

\* C21: an esc handed to a TextInput, cancelable or not, sets canceled,
\* clears quit and returns tea.Quit, so that the loop starts to stop.
C21_InputEscAlwaysCancels ==
    [][(Delivered /\ kind = "TextInput" /\ lastMsg' = "esc")
         => (m'.canceled /\ ~m'.quit /\ lastCmd' = QuitCmd
             /\ phase' = "stopping")]_vars

\* A TextInput built with WithCancel(false) has ended on its first key, esc.
C21_Witness ==
    /\ kind = "TextInput" /\ ~m.cancelable /\ phase = "stopping"
    /\ nmsgs = 1 /\ lastMsg = "esc" /\ m.canceled /\ ~m.quit

\* An esc or a ctrl+c is handed to a TextInput or a TextArea.
TextEnds ==
    Delivered /\ kind \in {"TextInput", "TextArea"} /\ lastMsg' \in {"esc", "ctrl+c"}

\* C22 as stated: an esc or a ctrl+c handed to a TextInput or a TextArea
\* leaves the text as it was, and nothing but canceled and quit changes.
C22_OnlyFlagsChange ==
    [][TextEnds
         => /\ m'.textInput.value = m.textInput.value
            /\ [m' EXCEPT !.canceled = m.canceled, !.quit = m.quit] = m]_vars

\* C22: an esc or a ctrl+c handed to a TextInput or a TextArea leaves the
\* text as it was; canceled and quit change, and the esc of a TextArea also
\* takes the focus from its editor; nothing else changes.
C22_ValueUnchanged ==
    [][TextEnds
         => /\ m'.textInput.value = m.textInput.value
            /\ m'.canceled
            /\ m'.quit = (lastMsg' = "ctrl+c")
            /\ IF kind = "TextArea"
               THEN /\ lastMsg' = "esc" => ~m'.textInput.focus
                    /\ lastMsg' = "ctrl+c" => m'.textInput.focus = m.textInput.focus
                    /\ [m' EXCEPT !.canceled = m.canceled, !.quit = m.quit,
                                  !.textInput.focus = m.textInput.focus] = m
               ELSE [m' EXCEPT !.canceled = m.canceled, !.quit = m.quit] = m]_vars

\* The text " a ", which an enter would rewrite, is still stored after the esc
\* that canceled a TextArea.
C22_Witness ==
    /\ kind = "TextArea" /\ phase = "stopping" /\ nmsgs = 1 /\ lastMsg = "esc"
    /\ m.canceled /\ ~m.quit /\ m.textInput.value = <<" ", "a", " ">>

\* C23: no step of the run, Init and Update included, changes cancelable or
\* quitable or, for Picker, the items: only the builders, before the run, do.
C23_ConfigFrozen ==
    [][phase' # "config"
         => /\ m'.cancelable = m.cancelable
            /\ m'.quitable = m.quitable
            /\ kind = "Picker" => m'.items = m.items]_vars

\* A widget configured with WithCancel(false) and WithQuit(false) has been
\* handed two messages or more, the last of them a key.
C23_Witness ==
    /\ phase \in {"running", "stopping"} /\ nmsgs >= 2 /\ lastMsg # "resize"
    /\ ~m.cancelable /\ ~m.quitable

\* C24: in a running Picker with items, j moves the selection as down does,
\* to (index + 1) mod N, and k as up does, to (index - 1 + N) mod N.
C24_PickVimKeys ==
    [][(Delivered /\ kind = "Picker" /\ phase = "running" /\ Len(m.items) > 0)
         => LET N == Len(m.items)
            IN  /\ lastMsg' = "j" => m'.selectedIdx = (m.selectedIdx + 1) % N
                /\ lastMsg' = "k" => m'.selectedIdx = (m.selectedIdx - 1 + N) % N]_vars

\* C25: an esc handed to a List or a Picker with cancelable = false, and a
\* ctrl+c handed to one with quitable = false, changes nothing of the widget,
\* the list collaborator included, and no command is returned.
C25_DisabledKeyNoTransition ==
    [][(Delivered /\ kind \in {"List", "Picker"}
          /\ \/ lastMsg' = "esc" /\ ~m.cancelable
             \/ lastMsg' = "ctrl+c" /\ ~m.quitable)
         => (m' = m /\ lastCmd' = NoCmd /\ phase' = phase)]_vars

\* C26: a Picker handed a key other than up, down, left, right, j, k, enter,
\* esc and ctrl+c, or a message that is no key, stays exactly as it is and
\* returns no command.
C26_PickIgnoresOthers ==
    [][(Delivered /\ kind = "Picker"
          /\ lastMsg' \notin {"up", "down", "left", "right", "j", "k",
                              "enter", "esc", "ctrl+c"})
         => (m' = m /\ lastCmd' = NoCmd /\ phase' = phase)]_vars

\* A running Picker whose selection is on its last item has been handed the
\* key x or a window size.
C26_Witness ==
    /\ kind = "Picker" /\ phase = "running" /\ lastMsg \in {"x", "resize"}
    /\ Len(m.items) > 1 /\ m.selectedIdx = Len(m.items) - 1

\* The field a builder names.
FieldOf(w) ==
    CASE w = "WithCancel" -> "cancelable"
      [] w = "WithQuit" -> "quitable"
      [] w = "WithLabel" -> "label"
      [] w = "WithHorizontal" -> "horizontal"
      [] OTHER -> "selectedIdx"

\* The flags and, for List and Picker, the selected index of a model.
FlagsAndIndex(k, model) ==
    <<model.cancelable, model.quitable, model.canceled, model.quit,
      IF k \in {"List", "Picker"} THEN model.selectedIdx ELSE 0>>

\* C27: a builder call returns a model that differs from its receiver in the
\* named field only, that field holding the argument (for WithSelectedIndex
\* an index), and the receiver is as it was before the call; a message handed
\* to the Update of one of the two afterwards changes neither the flags nor
\* the selected index of the other.
C27_BuildersCopy ==
    [][/\ nconf' = nconf + 1
          => LET r == built'[1].recv
                 c == built'[1].call
                 f == FieldOf(c.with)
             IN  /\ r = m
                 /\ DOMAIN m' = DOMAIN r
                 /\ \A g \in DOMAIN r \ {f} : m'[g] = r[g]
                 /\ c.with \in {"WithCancel", "WithQuit", "WithHorizontal"}
                       => m'[f] = c.b
                 /\ c.with = "WithLabel" => m'[f] = c.s
       /\ Delivered
          => \/ FlagsAndIndex(kind, m') = FlagsAndIndex(kind, m)
             \/ FlagsAndIndex(kind, built'[1].recv)
                   = FlagsAndIndex(kind, built[1].recv)]_vars

\* WithCancel(false) was called on a model whose selection had been moved, and
\* an esc then canceled the receiver: the receiver is canceled with index
\* -1, the returned model still has the selection and is not canceled.
C27_Witness ==
    /\ built # <<>> /\ kind = "Picker" /\ lastMsg = "esc"
    /\ built[1].call.with = "WithCancel" /\ ~m.cancelable
    /\ built[1].recv.cancelable /\ built[1].recv.canceled
    /\ built[1].recv.selectedIdx = -1
    /\ ~m.canceled /\ m.selectedIdx > 0

\* C28: Picker.WithSelectedIndex(i) returns, for N > 0 items, the index
\* max(0, min(i, N-1)); for no items it returns one and the same index
\* whatever i is.
C28_PickClamp ==
    [][(nconf' = nconf + 1 /\ kind = "Picker"
          /\ built'[1].call.with = "WithSelectedIndex")
         => LET N == Len(m.items)
                i == built'[1].call.i
            IN  IF N > 0 THEN m'.selectedIdx = Max(0, Min(i, N - 1))
                ELSE \A j \in IdxArgs :
                        m'.selectedIdx = PickWithSelectedIndex(m, j).selectedIdx]_vars

\* C29: in a List, a TextInput and a TextArea quit is never set without
\* canceled, and a run of one of them never resolves to QuitError: the
\* resolver, testing Canceled() first, reports a ctrl+c as CanceledError.
C29_QuitImpliesCanceled ==
    kind \in {"List", "TextInput", "TextArea"}
      => /\ m.quit => m.canceled
         /\ phase = "resolved" => result # QuitError
         /\ (phase = "resolved" /\ runErr = NilError /\ m.quit)
               => result = CanceledError

\* The run of a TextArea that a ctrl+c ended has resolved to CanceledError.
C29_Witness ==
    /\ kind = "TextArea" /\ phase = "resolved" /\ lastMsg = "ctrl+c"
    /\ m.quit /\ m.canceled /\ result = CanceledError

\* C30: an enter that does not terminate a running TextArea leaves a text of
\* one more line, the last one empty, and the enter that follows it at once
\* terminates with canceled = false and quit = false.
C30_TwoEntersConfirm ==
    [][(Delivered /\ kind = "TextArea" /\ phase = "running" /\ lastMsg' = "enter")
         => /\ lastCmd' = NoCmd
                 => /\ LastLine(m'.textInput.value) = <<>>
                    /\ Len(Split(m'.textInput.value))
                          = Len(Split(m.textInput.value)) + 1
            /\ (lastMsg = "enter" /\ lastCmd = NoCmd)
                 => (lastCmd' = QuitCmd /\ ~m'.canceled /\ ~m'.quit)]_vars

\* The text an enter stores: what SetValue keeps of the normalization.
Stored(model) == TextareaNormalize(model).textInput.value

\* C31: for the text of a TextArea, normalizing the normalized text returns
\* it unchanged and keeps the number of lines, as a function of the text and
\* as what an enter stores; and an enter handed to a TextArea whose text is
\* normalized and does not terminate leaves that text, followed at most by
\* the newline of the editor.
C31_NormalizeIdempotent ==
    /\ [](kind = "TextArea"
            => LET v == m.textInput.value
               IN  /\ Normalized(Normalized(v)) = Normalized(v)
                   /\ Len(Split(Normalized(v))) = Len(Split(v))
                   /\ Stored(TextareaNormalize(m)) = Stored(m)
                   /\ Len(Split(Stored(m))) = Len(Split(v)))
    /\ [][(Delivered /\ kind = "TextArea" /\ lastMsg' = "enter"
            /\ m.textInput.value = Normalized(m.textInput.value)
            /\ lastCmd' = NoCmd)
           => m'.textInput.value
                \in {m.textInput.value, Append(m.textInput.value, NL)}]_vars

====
